---- MODULE Spec2Model ----
(***************************************************************************)
(* go-httpclient (httpclient.go): the HttpClient session, its option       *)
(* resolution, the reuse of the cached transport and cookie jar, and the   *)
(* Begin / With* / Do protocol with its lazily created mutex.              *)
(*                                                                         *)
(* A Go map is a function with a finite domain; a nil map and an empty map *)
(* read alike (ranging over nil is legal, and every write in the code is   *)
(* guarded by a nil check), so both are EmptyMap.  An interface{} option   *)
(* value is a record [type, val] carrying its dynamic type.                *)
(***************************************************************************)
EXTENDS Integers, Sequences, FiniteSets, TLC

(* ---------------------------------------------------------------------- *)
(* Constants of the program (httpclient.go lines 30-52)                    *)
(* ---------------------------------------------------------------------- *)
PROXY_HTTP == 0

OPT_AUTOREFERER == 58
OPT_FOLLOWLOCATION == 52
OPT_CONNECTTIMEOUT == 78
OPT_CONNECTTIMEOUT_MS == 156
OPT_MAXREDIRS == 68
OPT_PROXYTYPE == 101
OPT_TIMEOUT == 13
OPT_TIMEOUT_MS == 155
OPT_COOKIEJAR == 10082
OPT_INTERFACE == 10062
OPT_PROXY == 10004
OPT_REFERER == 10016
OPT_USERAGENT == 10018
OPT_REDIRECT_POLICY == 100000
OPT_PROXY_FUNC == 100001

(* ---------------------------------------------------------------------- *)
(* Bounds of the model                                                     *)
(* ---------------------------------------------------------------------- *)
\* With* calls in one staging window
MaxStage == 1
\* requests in one redirect chain
MaxChain == 11

(* ---------------------------------------------------------------------- *)
(* Values                                                                  *)
(* ---------------------------------------------------------------------- *)
IntV(n) == [type |-> "int", val |-> n]
BoolV(b) == [type |-> "bool", val |-> b]
StrV(s) == [type |-> "string", val |-> s]
\* a function value; val names its signature
FuncV(sig) == [type |-> "func", val |-> sig]
\* a caller-supplied http.CookieJar object
JarV(name) == [type |-> "jar", val |-> name]

EmptyMap == [x \in {} |-> 0]

USERAGENT == "go-httpclient v0.3.0"

Callers == {"c1", "c2"}
NoCaller == "none"

\* the strings of the model that url.Parse rejects after "http://" is prepended
BadUrlStrings == {"%zz"}

(* ---------------------------------------------------------------------- *)
(* Option tables                                                           *)
(* ---------------------------------------------------------------------- *)
defaultOptions ==
    (OPT_FOLLOWLOCATION :> BoolV(TRUE)) @@
    (OPT_MAXREDIRS :> IntV(10)) @@
    (OPT_AUTOREFERER :> BoolV(TRUE)) @@
    (OPT_USERAGENT :> StrV(USERAGENT)) @@
    (OPT_COOKIEJAR :> BoolV(TRUE))

transportOptions ==
    << OPT_CONNECTTIMEOUT, OPT_CONNECTTIMEOUT_MS, OPT_PROXYTYPE, OPT_TIMEOUT,
       OPT_TIMEOUT_MS, OPT_INTERFACE, OPT_PROXY, OPT_PROXY_FUNC >>

jarOptions == << OPT_COOKIEJAR >>

(* ---------------------------------------------------------------------- *)
(* Pure helpers                                                            *)
(* ---------------------------------------------------------------------- *)
\* for k, v := range m { rst[k] = v }
Overlay(rst, m) ==
    [k \in (DOMAIN rst) \cup (DOMAIN m) |-> IF k \in DOMAIN m THEN m[k] ELSE rst[k]]

\* rst[k] = v
Put(m, k, v) == [x \in (DOMAIN m) \cup {k} |-> IF x = k THEN v ELSE m[x]]

RECURSIVE mergeLayers(_, _)
mergeLayers(rst, layers) ==
    IF layers = << >> THEN rst
    ELSE mergeLayers(Overlay(rst, Head(layers)), Tail(layers))

\* mergeOptions with the layers applied in the opposite order: the first wins
mergeOptionsFirstWins(layers) ==
    LET RECURSIVE rev(_)
        rev(s) == IF s = << >> THEN << >> ELSE Append(rev(Tail(s)), Head(s))
    IN  mergeLayers(EmptyMap, rev(layers))

\* mergeOptions(options ...map[int]interface{}): latter ones have higher priority
mergeOptions(layers) == mergeLayers(EmptyMap, layers)

\* mergeHeaders(headers ...map[string]string)
mergeHeaders(layers) == mergeLayers(EmptyMap, layers)

\* membership as the name promises: opt is one of options
hasOptionMember(opt, options) == \E i \in 1..Len(options) : opt = options[i]

\* hasOption: the loop returns true at the first entry that differs from opt
hasOption(opt, options) == \E i \in 1..Len(options) : opt # options[i]

(* ---------------------------------------------------------------------- *)
(* Builders                                                                *)
(* ---------------------------------------------------------------------- *)
NoProxy == [kind |-> "none", arg |-> ""]
NilTransport == [id |-> 0, connectTimeoutMS |-> 0, timeoutMS |-> 0, proxy |-> NoProxy]
NilJar == [id |-> 0, kind |-> "nil", name |-> ""]
NilPolicy == [custom |-> FALSE, followlocation |-> FALSE, maxredirs |-> 0]

\* lines 131-143: the millisecond option shadows the second option
connectTimeout(options) ==
    IF OPT_CONNECTTIMEOUT_MS \in DOMAIN options
    THEN IF options[OPT_CONNECTTIMEOUT_MS].type = "int"
         THEN [err |-> "", ms |-> options[OPT_CONNECTTIMEOUT_MS].val]
         ELSE [err |-> "OPT_CONNECTTIMEOUT_MS must be int", ms |-> 0]
    ELSE IF OPT_CONNECTTIMEOUT \in DOMAIN options
    THEN IF options[OPT_CONNECTTIMEOUT].type = "int"
         THEN [err |-> "", ms |-> options[OPT_CONNECTTIMEOUT].val * 1000]
         ELSE [err |-> "OPT_CONNECTTIMEOUT must be int", ms |-> 0]
    ELSE [err |-> "", ms |-> 0]

\* lines 145-157
overallTimeout(options) ==
    IF OPT_TIMEOUT_MS \in DOMAIN options
    THEN IF options[OPT_TIMEOUT_MS].type = "int"
         THEN [err |-> "", ms |-> options[OPT_TIMEOUT_MS].val]
         ELSE [err |-> "OPT_TIMEOUT_MS must be int", ms |-> 0]
    ELSE IF OPT_TIMEOUT \in DOMAIN options
    THEN IF options[OPT_TIMEOUT].type = "int"
         THEN [err |-> "", ms |-> options[OPT_TIMEOUT].val * 1000]
         ELSE [err |-> "OPT_TIMEOUT must be int", ms |-> 0]
    ELSE [err |-> "", ms |-> 0]

\* lines 159-162: fix connect timeout
fixConnectTimeout(connectTimeoutMS, timeoutMS) ==
    IF timeoutMS > 0 /\ (connectTimeoutMS > timeoutMS \/ connectTimeoutMS = 0)
    THEN timeoutMS
    ELSE connectTimeoutMS

\* lines 164-177: how transport.Dial connects: net.DialTimeout with the
\* connect timeout if it is positive, else net.Dial, which has no timeout
dial(tr) ==
    IF tr.connectTimeoutMS > 0
    THEN [timed |-> TRUE, ms |-> tr.connectTimeoutMS]
    ELSE [timed |-> FALSE, ms |-> 0]

\* lines 186-232: the proxy of the transport
proxyOf(options) ==
    IF OPT_PROXY_FUNC \in DOMAIN options
    THEN IF options[OPT_PROXY_FUNC] = FuncV("proxy")
         THEN [err |-> "", proxy |-> [kind |-> "func", arg |-> ""]]
         ELSE [err |-> "OPT_PROXY_FUNC is not a desired function", proxy |-> NoProxy]
    ELSE IF /\ OPT_PROXYTYPE \in DOMAIN options
            /\ \/ options[OPT_PROXYTYPE].type # "int"
               \/ options[OPT_PROXYTYPE].val # PROXY_HTTP
    THEN [err |-> "OPT_PROXYTYPE must be int, and only PROXY_HTTP is currently supported",
          proxy |-> NoProxy]
    ELSE IF OPT_PROXY \in DOMAIN options
    THEN IF options[OPT_PROXY].type # "string"
         THEN [err |-> "OPT_PROXY must be string", proxy |-> NoProxy]
         ELSE IF options[OPT_PROXY].val \in BadUrlStrings
         THEN [err |-> "url.Parse", proxy |-> NoProxy]
         ELSE [err |-> "", proxy |-> [kind |-> "url", arg |-> options[OPT_PROXY].val]]
    ELSE [err |-> "", proxy |-> NoProxy]

\* prepareTransport(options); id is the identity of the transport it allocates
prepareTransport(options, id) ==
    LET ct == connectTimeout(options)
        to == overallTimeout(options)
        px == proxyOf(options)
    IN  IF ct.err # "" THEN [err |-> ct.err, transport |-> NilTransport]
        ELSE IF to.err # "" THEN [err |-> to.err, transport |-> NilTransport]
        ELSE IF px.err # "" THEN [err |-> px.err, transport |-> NilTransport]
        ELSE [err |-> "",
              transport |-> [id |-> id,
                             connectTimeoutMS |-> fixConnectTimeout(ct.ms, to.ms),
                             timeoutMS |-> to.ms,
                             proxy |-> px.proxy]]

\* prepareRedirect(options)
prepareRedirect(options) ==
    IF OPT_REDIRECT_POLICY \in DOMAIN options
    THEN IF options[OPT_REDIRECT_POLICY] = FuncV("redirect")
         THEN [err |-> "", policy |-> [custom |-> TRUE, followlocation |-> FALSE, maxredirs |-> 0]]
         ELSE [err |-> "OPT_REDIRECT_POLICY is not a desired function", policy |-> NilPolicy]
    ELSE IF /\ OPT_FOLLOWLOCATION \in DOMAIN options
            /\ options[OPT_FOLLOWLOCATION].type # "bool"
    THEN [err |-> "OPT_FOLLOWLOCATION must be bool", policy |-> NilPolicy]
    ELSE IF /\ OPT_MAXREDIRS \in DOMAIN options
            /\ options[OPT_MAXREDIRS].type # "int"
    THEN [err |-> "OPT_MAXREDIRS must be int", policy |-> NilPolicy]
    ELSE [err |-> "",
          policy |-> [custom |-> FALSE,
                      followlocation |-> IF OPT_FOLLOWLOCATION \in DOMAIN options
                                         THEN options[OPT_FOLLOWLOCATION].val ELSE FALSE,
                      maxredirs |-> IF OPT_MAXREDIRS \in DOMAIN options
                                    THEN options[OPT_MAXREDIRS].val ELSE 0]]

\* the synthesized policy stopping one request later: len(via) > maxredirs
redirectPolicyOneLater(policy, n) ==
    IF ~policy.followlocation \/ policy.maxredirs <= 0 THEN FALSE
    ELSE IF n > policy.maxredirs THEN FALSE
    ELSE TRUE

\* lines 259-270: the synthesized policy on a chain of n prior requests;
\* TRUE when the redirect is allowed
redirectPolicy(policy, n) ==
    IF ~policy.followlocation \/ policy.maxredirs <= 0 THEN FALSE
    ELSE IF n >= policy.maxredirs THEN FALSE
    ELSE TRUE

\* prepareJar(options); id is the identity of the jar cookiejar.New allocates
prepareJar(options, id) ==
    IF OPT_COOKIEJAR \in DOMAIN options
    THEN IF options[OPT_COOKIEJAR].type = "bool"
         THEN IF options[OPT_COOKIEJAR].val
              THEN [err |-> "", jar |-> [id |-> id, kind |-> "new", name |-> ""]]
              ELSE [err |-> "", jar |-> NilJar]
         ELSE IF options[OPT_COOKIEJAR].type = "jar"
         THEN [err |-> "", jar |-> [id |-> 0, kind |-> "given", name |-> options[OPT_COOKIEJAR].val]]
         ELSE [err |-> "invalid cookiejar", jar |-> NilJar]
    ELSE [err |-> "", jar |-> NilJar]

\* textproto.CanonicalMIMEHeaderKey, which req.Header.Set applies, on the
\* header names of the model
CanonicalMIMEHeaderKey(k) == IF k = "x-a" THEN "X-A" ELSE k

\* lines 107-119: the Referer and User-Agent fields set from the options
optionHeaders(options) ==
    LET ref == IF OPT_REFERER \in DOMAIN options /\ options[OPT_REFERER].type = "string"
               THEN ("Referer" :> options[OPT_REFERER].val) ELSE EmptyMap
        ua  == IF OPT_USERAGENT \in DOMAIN options /\ options[OPT_USERAGENT].type = "string"
               THEN ("User-Agent" :> options[OPT_USERAGENT].val) ELSE EmptyMap
    IN  Overlay(ref, ua)

\* lines 121-123: for k, v := range headers { req.Header.Set(k, v) }.  Two
\* names with one canonical form write the same field, and Go ranges over a
\* map in an unspecified order: every outcome is in the set.
setHeaders(base, headers) ==
    LET canon == {CanonicalMIMEHeaderKey(k) : k \in DOMAIN headers}
        vals  == {headers[k] : k \in DOMAIN headers}
        picks == {g \in [canon -> vals] :
                     \A c \in canon : \E k \in DOMAIN headers :
                         CanonicalMIMEHeaderKey(k) = c /\ g[c] = headers[k]}
    IN  {Overlay(base, g) : g \in picks}

\* prepareRequest: the header maps the request may carry
prepareRequest(headers, options) == setHeaders(optionHeaders(options), headers)

\* checkParamFile(params): is one key marked as a file. A key is its sequence
\* of characters; the code indexes k[0]
checkParamFile(params) == \E k \in params : k[1] = "@"

(* ---------------------------------------------------------------------- *)
(* State                                                                   *)
(* ---------------------------------------------------------------------- *)
VARIABLES
    \* the HttpClient (lines 311-322)
    Options, Headers, oneTimeOptions, oneTimeHeaders, oneTimeCookies,
    transport, jar, reuseTransport, reuseJar,
    \* this.lock: 0 is nil, else an index into mutexes
    lock,
    \* the sync.Mutex objects allocated so far; holder is kept for the checks
    mutexes,
    \* the runtime's fatal error "sync: unlock of unlocked mutex" ended the process
    crashed,
    \* the callers that use the session, and whether each of their cycles is
    \* Begin -> With* -> one request call (fixed at the start of a run)
    active, strict,
    \* per caller: where it is, the mutex pointer Begin read, the locals of its
    \* call, and its result
    pc, m, loc, result,
    \* per caller, kept for the checks: entered through Begin, With* calls made
    \* and what they staged, resets run by the current call
    viaBegin, staged, own, resets

session == << Options, Headers, oneTimeOptions, oneTimeHeaders, oneTimeCookies,
              transport, jar, reuseTransport, reuseJar, lock, mutexes >>
oneTime == << oneTimeOptions, oneTimeHeaders, oneTimeCookies, reuseTransport, reuseJar >>
config  == << active, strict >>
vars == << Options, Headers, oneTimeOptions, oneTimeHeaders, oneTimeCookies,
           transport, jar, reuseTransport, reuseJar, lock, mutexes,
           crashed, active, strict, pc, m, loc, result, viaBegin, staged, own,
           resets >>

NoOwn == [options |-> EmptyMap, headers |-> EmptyMap, cookies |-> << >>]
NoArg == [alias |-> FALSE, map |-> EmptyMap]
NoLoc == [op |-> "", harg |-> NoArg, urlOk |-> TRUE,
          options |-> EmptyMap, headers |-> EmptyMap, cookies |-> << >>,
          transport |-> NilTransport, jar |-> NilJar, policy |-> NilPolicy,
          reqHeaders |-> EmptyMap,
          \* the requests the engine has sent for the call: len(via) of the
          \* next CheckRedirect
          via |-> 0,
          \* kept for the checks: the one-time state the call resolved, and the
          \* cached transport and jar its acquire steps found
          seen |-> NoOwn, cachedTransport |-> NilTransport, cachedJar |-> NilJar]
NoResult == [err |-> "", from |-> ""]

(* ---------------------------------------------------------------------- *)
(* Inputs                                                                  *)
(* ---------------------------------------------------------------------- *)
\* the persistent options a session is constructed with
PersistentChoices ==
    IF Cardinality(active) = 1
    THEN { EmptyMap,
           (OPT_MAXREDIRS :> IntV(5)) @@ (OPT_TIMEOUT :> IntV(1)) @@ (OPT_REFERER :> StrV("p")) }
    ELSE { (OPT_TIMEOUT :> IntV(1)) @@ (OPT_REFERER :> StrV("p")) }

\* the (key, value) pairs WithOption is called with
StageChoices(t) ==
    IF Cardinality(active) = 1
    THEN { << OPT_TIMEOUT_MS, IntV(2000) >>, << OPT_TIMEOUT_MS, StrV("x") >>,
           << OPT_REFERER, StrV("r") >>, << OPT_MAXREDIRS, StrV("x") >>,
           << OPT_COOKIEJAR, BoolV(FALSE) >>, << OPT_COOKIEJAR, IntV(1) >> }
    ELSE { << OPT_REFERER, StrV(t) >> }

\* the maps WithOptions is called with
StageMaps(t) ==
    IF Cardinality(active) = 1
    THEN { (OPT_COOKIEJAR :> JarV("j")) @@ (OPT_MAXREDIRS :> IntV(3)) }
    ELSE { (OPT_MAXREDIRS :> IntV(3)) @@ (OPT_USERAGENT :> StrV(t)) }

HeaderKeys == IF Cardinality(active) = 1 THEN {"X-A", "x-a"} ELSE {"X-A"}
HeaderMaps(t) == { ("X-A" :> t) @@ ("X-B" :> t) }
PersistentHeaders == { << "X-A", "p" >> }
\* the arguments of a direct Do: the headers (nil, or a map of the caller's)
\* and whether http.NewRequest will accept the method and url
DoArgs ==
    IF Cardinality(active) = 1
    THEN { << EmptyMap, TRUE >>, << ("X-A" :> "d"), TRUE >>, << EmptyMap, FALSE >> }
    ELSE { << EmptyMap, TRUE >>, << EmptyMap, FALSE >> }
\* the option maps that give each key of choices one of its values, or leave
\* it out
OptionMaps(choices) ==
    UNION { { f \in [S -> UNION {choices[k] : k \in S}] : \A k \in S : f[k] \in choices[k] } :
            S \in SUBSET (DOMAIN choices) }

\* persistent options of the redirect policy
RedirectChoices ==
    OptionMaps((OPT_FOLLOWLOCATION :> {BoolV(TRUE), BoolV(FALSE)}) @@
               (OPT_MAXREDIRS :> {IntV(0 - 1), IntV(0), IntV(1), IntV(3)}))
    \cup { (OPT_REDIRECT_POLICY :> FuncV("redirect")) @@ (OPT_FOLLOWLOCATION :> BoolV(FALSE)) }

\* persistent options of the two timeouts, in either precision and of either
\* type
TimeoutChoices ==
    OptionMaps((OPT_CONNECTTIMEOUT_MS :> {IntV(0 - 5), IntV(0), IntV(1500), IntV(10000), StrV("x")}) @@
               (OPT_CONNECTTIMEOUT :> {IntV(0), IntV(3), StrV("x")}) @@
               (OPT_TIMEOUT_MS :> {IntV(0 - 1), IntV(0), IntV(2000), StrV("x")}) @@
               (OPT_TIMEOUT :> {IntV(2), StrV("x")}))

OptionChoices == RedirectChoices \cup TimeoutChoices

\* the params of Post and PostMultipart: sets of keys, each a sequence of characters
ParamChoices == { {}, { << "a" >> }, { << "a" >>, << "@", "f" >> } }

(* ---------------------------------------------------------------------- *)
(* Init: NewHttpClient(options) (lines 300-309)                            *)
(* ---------------------------------------------------------------------- *)
NewHttpClient(options) ==
    /\ Options \in options
    /\ Headers = EmptyMap
    /\ oneTimeOptions = EmptyMap
    /\ oneTimeHeaders = EmptyMap
    /\ oneTimeCookies = << >>
    /\ transport = NilTransport
    /\ jar = NilJar
    /\ reuseTransport = TRUE
    /\ reuseJar = TRUE
    /\ lock = 0
    /\ mutexes = << >>
    /\ crashed = FALSE
    /\ pc = [t \in Callers |-> "idle"]
    /\ m = [t \in Callers |-> 0]
    /\ loc = [t \in Callers |-> NoLoc]
    /\ result = [t \in Callers |-> NoResult]
    /\ viaBegin = [t \in Callers |-> FALSE]
    /\ staged = [t \in Callers |-> 0]
    /\ own = [t \in Callers |-> NoOwn]
    /\ resets = [t \in Callers |-> 0]

\* two callers share the session; each runs Begin -> With* -> request cycles
Init == active = Callers /\ strict = TRUE /\ NewHttpClient(PersistentChoices)

\* one caller; any order of calls
InitSeq == active = {"c1"} /\ strict = FALSE /\ NewHttpClient(PersistentChoices)

\* two callers; c1 runs Begin -> With* -> Do cycles, c2 makes request calls
\* without Begin
InitMixed == active = Callers /\ strict = FALSE /\ NewHttpClient(PersistentChoices)

\* one caller; the session is constructed with redirect or timeout options
InitOptions == active = {"c1"} /\ strict = FALSE /\ NewHttpClient(OptionChoices)

(* ---------------------------------------------------------------------- *)
(* Begin (lines 324-331)                                                   *)
(* ---------------------------------------------------------------------- *)
Running(t) == ~crashed /\ t \in active

\* line 325: if this.lock == nil
Begin(t) ==
    /\ Running(t) /\ pc[t] = "idle"
    /\ pc' = [pc EXCEPT ![t] = IF lock = 0 THEN "begin_create" ELSE "begin_load"]
    /\ UNCHANGED << session, crashed, config, m, loc, result, viaBegin,
                    staged, own, resets >>

\* line 326: this.lock = new(sync.Mutex)
BeginCreate(t) ==
    /\ Running(t) /\ pc[t] = "begin_create"
    /\ mutexes' = Append(mutexes, [locked |-> FALSE, holder |-> NoCaller])
    /\ lock' = Len(mutexes) + 1
    /\ pc' = [pc EXCEPT ![t] = "begin_load"]
    /\ UNCHANGED << Options, Headers, oneTime, transport, jar, crashed,
                    config, m, loc, result, viaBegin, staged, own, resets >>

\* line 328: the read of this.lock
BeginLoad(t) ==
    /\ Running(t) /\ pc[t] = "begin_load"
    /\ m' = [m EXCEPT ![t] = lock]
    /\ pc' = [pc EXCEPT ![t] = "begin_lock"]
    /\ UNCHANGED << session, crashed, config, loc, result, viaBegin,
                    staged, own, resets >>

\* line 328: Lock() on the mutex read; blocks while it is locked
BeginLock(t) ==
    /\ Running(t) /\ pc[t] = "begin_lock"
    /\ ~mutexes[m[t]].locked
    /\ mutexes' = [mutexes EXCEPT ![m[t]] = [locked |-> TRUE, holder |-> t]]
    /\ m' = [m EXCEPT ![t] = 0]
    /\ viaBegin' = [viaBegin EXCEPT ![t] = TRUE]
    /\ pc' = [pc EXCEPT ![t] = "staged"]
    /\ UNCHANGED << Options, Headers, oneTime, transport, jar, lock, crashed, config, loc, result, staged, own, resets >>

(* ---------------------------------------------------------------------- *)
(* reset (lines 333-343)                                                   *)
(* ---------------------------------------------------------------------- *)
\* Unlock of a mutex that is not locked is a fatal error of the Go runtime
unlockFails == lock # 0 /\ ~mutexes[lock].locked

\* reset without the Unlock of lines 340-342
resetKeepsLock(t) ==
    /\ oneTimeOptions' = EmptyMap
    /\ oneTimeHeaders' = EmptyMap
    /\ oneTimeCookies' = << >>
    /\ reuseTransport' = TRUE
    /\ reuseJar' = TRUE
    /\ resets' = [resets EXCEPT ![t] = @ + 1]
    /\ mutexes' = mutexes
    /\ crashed' = FALSE

reset(t) ==
    /\ oneTimeOptions' = EmptyMap
    /\ oneTimeHeaders' = EmptyMap
    /\ oneTimeCookies' = << >>
    /\ reuseTransport' = TRUE
    /\ reuseJar' = TRUE
    /\ resets' = [resets EXCEPT ![t] = @ + 1]
    /\ IF lock # 0
       THEN IF mutexes[lock].locked
            THEN /\ mutexes' = [mutexes EXCEPT ![lock] = [locked |-> FALSE, holder |-> NoCaller]]
                 /\ crashed' = FALSE
            ELSE /\ mutexes' = mutexes
                 /\ crashed' = TRUE
       ELSE /\ mutexes' = mutexes
            /\ crashed' = FALSE

(* ---------------------------------------------------------------------- *)
(* WithOption, WithOptions, WithHeader, WithHeaders, WithCookie            *)
(* (lines 345-394)                                                         *)
(* ---------------------------------------------------------------------- *)
\* a With* or request call is made in the staging window, or without Begin
CanCall(t) ==
    /\ Running(t)
    /\ \/ pc[t] = "staged"
       \/ ~strict /\ pc[t] = "idle"

\* the body of WithOption on the one-time options and the two reuse flags
stageOption(st, k, v) ==
    [ options |-> Put(st.options, k, v),
      reuseTransport |-> IF ~hasOption(k, transportOptions) THEN FALSE ELSE st.reuseTransport,
      reuseJar |-> IF ~hasOption(k, jarOptions) THEN FALSE ELSE st.reuseJar ]

\* for k, v := range m { this.WithOption(k, v) }
RECURSIVE stageOptions(_, _)
stageOptions(st, mp) ==
    IF DOMAIN mp = {} THEN st
    ELSE LET k == CHOOSE x \in DOMAIN mp : TRUE
         IN  stageOptions(stageOption(st, k, mp[k]),
                          [x \in (DOMAIN mp) \ {k} |-> mp[x]])

oneTimeState == [options |-> oneTimeOptions, reuseTransport |-> reuseTransport,
                 reuseJar |-> reuseJar]

Stage(t) ==
    /\ staged[t] < MaxStage
    /\ staged' = [staged EXCEPT ![t] = @ + 1]
    /\ pc' = [pc EXCEPT ![t] = "staged"]

WithOption(t, k, v) ==
    /\ CanCall(t) /\ Stage(t)
    /\ LET st == stageOption(oneTimeState, k, v)
       IN  /\ oneTimeOptions' = st.options
           /\ reuseTransport' = st.reuseTransport
           /\ reuseJar' = st.reuseJar
    /\ own' = [own EXCEPT ![t].options = Put(@, k, v)]
    /\ UNCHANGED << Options, Headers, oneTimeHeaders, oneTimeCookies, transport,
                    jar, lock, mutexes, crashed, config, m, loc, result,
                    viaBegin, resets >>

WithOptions(t, mp) ==
    /\ CanCall(t) /\ Stage(t)
    /\ LET st == stageOptions(oneTimeState, mp)
       IN  /\ oneTimeOptions' = st.options
           /\ reuseTransport' = st.reuseTransport
           /\ reuseJar' = st.reuseJar
    /\ own' = [own EXCEPT ![t].options = Overlay(@, mp)]
    /\ UNCHANGED << Options, Headers, oneTimeHeaders, oneTimeCookies, transport,
                    jar, lock, mutexes, crashed, config, m, loc, result,
                    viaBegin, resets >>

WithHeader(t, k, v) ==
    /\ CanCall(t) /\ Stage(t)
    /\ oneTimeHeaders' = Put(oneTimeHeaders, k, v)
    /\ own' = [own EXCEPT ![t].headers = Put(@, k, v)]
    /\ UNCHANGED << Options, Headers, oneTimeOptions, oneTimeCookies, transport,
                    jar, reuseTransport, reuseJar, lock, mutexes, crashed,
                    config, m, loc, result, viaBegin, resets >>

\* for k, v := range m { this.WithHeader(k, v) }
WithHeaders(t, mp) ==
    /\ CanCall(t) /\ Stage(t)
    /\ oneTimeHeaders' = Overlay(oneTimeHeaders, mp)
    /\ own' = [own EXCEPT ![t].headers = Overlay(@, mp)]
    /\ UNCHANGED << Options, Headers, oneTimeOptions, oneTimeCookies, transport,
                    jar, reuseTransport, reuseJar, lock, mutexes, crashed,
                    config, m, loc, result, viaBegin, resets >>

WithCookie(t, cookie) ==
    /\ CanCall(t) /\ Stage(t)
    /\ oneTimeCookies' = Append(oneTimeCookies, cookie)
    /\ own' = [own EXCEPT ![t].cookies = Append(@, cookie)]
    /\ UNCHANGED << Options, Headers, oneTimeOptions, oneTimeHeaders, transport,
                    jar, reuseTransport, reuseJar, lock, mutexes, crashed,
                    config, m, loc, result, viaBegin, resets >>

\* the caller writes the exported Headers map between its calls
SetHeader(t, k, v) ==
    /\ Running(t) /\ pc[t] = "idle"
    /\ k \notin DOMAIN Headers
    /\ Headers' = Put(Headers, k, v)
    /\ UNCHANGED << Options, oneTime, transport, jar, lock, mutexes, crashed, config, pc, m, loc, result, viaBegin, staged, own,
                    resets >>

(* ---------------------------------------------------------------------- *)
(* The request calls: Do, Get, Post, PostMultipart (entry)                 *)
(* ---------------------------------------------------------------------- *)
\* the call of Do(method, url, headers, body); urlOk: http.NewRequest will
\* accept the method and url
enterDo(t, op, harg, urlOk) ==
    /\ loc' = [loc EXCEPT ![t] = [NoLoc EXCEPT !.op = op, !.harg = harg, !.urlOk = urlOk]]
    /\ pc' = [pc EXCEPT ![t] = "do_resolve"]

\* a direct call of Do with the caller's headers argument
Do(t, headers, urlOk) ==
    /\ CanCall(t)
    /\ enterDo(t, "Do", [alias |-> FALSE, map |-> headers], urlOk)
    /\ UNCHANGED << session, crashed, config, m, result, viaBegin,
                    staged, own, resets >>

\* Get (lines 462-466): this.Do("GET", url, nil, nil)
Get(t, urlOk) ==
    /\ CanCall(t)
    /\ enterDo(t, "Get", NoArg, urlOk)
    /\ UNCHANGED << session, crashed, config, m, result, viaBegin,
                    staged, own, resets >>

\* addFormFile (lines 543-557): "" or the step that failed
addFormFileOutcomes == {"", "os.Open", "io.Copy"}

\* the body of PostMultipart (lines 488-514): an error of addFormFile returns
\* at once; else Do is called with the multipart Content-Type alone
postMultipart(t, params, file, urlOk) ==
    IF checkParamFile(params) /\ file # ""
    THEN /\ result' = [result EXCEPT ![t] = [err |-> file, from |-> "PostMultipart"]]
         /\ pc' = [pc EXCEPT ![t] = "returned"]
         /\ UNCHANGED << session, crashed, config, m, loc, viaBegin,
                         staged, own, resets >>
    ELSE /\ enterDo(t, "PostMultipart",
                    [alias |-> FALSE, map |-> ("Content-Type" :> "multipart/form-data")],
                    urlOk)
         /\ UNCHANGED << session, crashed, config, m, result, viaBegin,
                         staged, own, resets >>

PostMultipart(t, params, file, urlOk) ==
    /\ CanCall(t)
    /\ postMultipart(t, params, file, urlOk)

\* Post (lines 472-485): headers := this.Headers is the persistent map itself,
\* so the Content-Type is written into it, and Do reads it through the alias
Post(t, params, file, urlOk) ==
    /\ CanCall(t)
    /\ IF checkParamFile(params)
       THEN postMultipart(t, params, file, urlOk)
       ELSE /\ Headers' = Put(Headers, "Content-Type", "application/x-www-form-urlencoded")
            /\ enterDo(t, "Post", [alias |-> TRUE, map |-> EmptyMap], urlOk)
            /\ UNCHANGED << Options, oneTime, transport, jar, lock, mutexes,
                            crashed, config, m, result, viaBegin, staged,
                            own, resets >>

(* ---------------------------------------------------------------------- *)
(* Do (lines 396-459), step by step                                        *)
(* ---------------------------------------------------------------------- *)
\* Do returns err to the caller of the request call
return(t, err) ==
    /\ result' = [result EXCEPT ![t] = [err |-> err, from |-> "Do"]]
    /\ loc' = [loc EXCEPT ![t] = NoLoc]
    /\ pc' = [pc EXCEPT ![t] = "returned"]

\* the process has ended inside reset: the call never returns
halt(t) ==
    /\ result' = result
    /\ loc' = loc
    /\ pc' = [pc EXCEPT ![t] = "crashed"]

\* The identity of a newly allocated object: an address no live reference
\* (the session's cache, a running call's local) holds; the least such number
leastFree(used) == CHOOSE n \in 1..(Cardinality(used) + 1) :
                       n \notin used /\ \A k \in 1..(n - 1) : k \in used
newTransport == leastFree({transport.id} \cup {loc[u].transport.id : u \in Callers})
newJar == leastFree({jar.id} \cup {loc[u].jar.id : u \in Callers})

\* lines 397-399: resolve the options, the headers and the cookies
DoResolve(t) ==
    /\ Running(t) /\ pc[t] = "do_resolve"
    /\ loc' = [loc EXCEPT
                 ![t].options = mergeOptions(<< defaultOptions, Options, oneTimeOptions >>),
                 ![t].headers = mergeHeaders(<< oneTimeHeaders,
                                                IF loc[t].harg.alias THEN Headers
                                                ELSE loc[t].harg.map >>),
                 ![t].cookies = oneTimeCookies,
                 ![t].harg = NoArg,
                 ![t].seen = [options |-> oneTimeOptions, headers |-> oneTimeHeaders,
                              cookies |-> oneTimeCookies]]
    /\ pc' = [pc EXCEPT ![t] = "do_transport"]
    /\ UNCHANGED << session, crashed, config, m, result, viaBegin,
                    staged, own, resets >>

\* lines 405-418: the transport; on an error reset and return
DoTransport(t) ==
    /\ Running(t) /\ pc[t] = "do_transport"
    /\ IF transport = NilTransport \/ ~reuseTransport
       THEN LET r == prepareTransport(loc[t].options, newTransport)
            IN  IF r.err # ""
                THEN /\ reset(t)
                     /\ IF unlockFails THEN halt(t) ELSE return(t, r.err)
                     /\ UNCHANGED << Options, Headers, transport, jar, lock, config,
                                     m, viaBegin, staged, own >>
                ELSE /\ loc' = [loc EXCEPT ![t].transport = r.transport,
                                           ![t].cachedTransport = transport]
                     /\ transport' = IF reuseTransport THEN r.transport ELSE transport
                     /\ pc' = [pc EXCEPT ![t] = "do_jar"]
                     /\ UNCHANGED << Options, Headers, oneTime, jar, lock, mutexes,
                                     crashed, config, m, result, viaBegin, staged,
                                     own, resets >>
       ELSE /\ loc' = [loc EXCEPT ![t].transport = transport,
                                  ![t].cachedTransport = transport]
            /\ pc' = [pc EXCEPT ![t] = "do_jar"]
            /\ UNCHANGED << session, crashed, config, m, result, viaBegin,
                            staged, own, resets >>

\* DoJar assigning the result of prepareJar to this.jar before the error check
DoJarStoresFirst(t) ==
    /\ Running(t) /\ pc[t] = "do_jar"
    /\ LET r == prepareJar(loc[t].options, newJar)
           build == jar = NilJar \/ ~reuseJar
       IN  IF build /\ r.err # ""
           THEN /\ reset(t)
                /\ IF unlockFails THEN halt(t) ELSE return(t, r.err)
                /\ jar' = r.jar
           ELSE /\ loc' = [loc EXCEPT ![t].jar = IF build THEN r.jar ELSE jar,
                                      ![t].cachedJar = jar]
                /\ jar' = IF build /\ reuseJar THEN r.jar ELSE jar
                /\ reset(t)
                /\ pc' = [pc EXCEPT ![t] = IF unlockFails THEN "crashed" ELSE "do_build"]
                /\ result' = result
    /\ UNCHANGED << Options, Headers, transport, lock, config, m, viaBegin,
                    staged, own >>

\* DoJar with the reset of line 436 left out
DoJarNoReset(t) ==
    /\ Running(t) /\ pc[t] = "do_jar"
    /\ LET r == prepareJar(loc[t].options, newJar)
           build == jar = NilJar \/ ~reuseJar
       IN  IF build /\ r.err # ""
           THEN /\ reset(t)
                /\ IF unlockFails THEN halt(t) ELSE return(t, r.err)
                /\ jar' = jar
           ELSE /\ loc' = [loc EXCEPT ![t].jar = IF build THEN r.jar ELSE jar,
                                      ![t].cachedJar = jar]
                /\ jar' = IF build /\ reuseJar THEN r.jar ELSE jar
                /\ pc' = [pc EXCEPT ![t] = "do_build"]
                /\ UNCHANGED << oneTime, mutexes, crashed, result, resets >>
    /\ UNCHANGED << Options, Headers, transport, lock, config, m, viaBegin,
                    staged, own >>

\* DoJar storing the jar it built whatever the reuse flag says
DoJarAlwaysCaches(t) ==
    /\ Running(t) /\ pc[t] = "do_jar"
    /\ LET r == prepareJar(loc[t].options, newJar)
           build == jar = NilJar \/ ~reuseJar
       IN  IF build /\ r.err # ""
           THEN /\ reset(t)
                /\ IF unlockFails THEN halt(t) ELSE return(t, r.err)
                /\ jar' = jar
           ELSE /\ loc' = [loc EXCEPT ![t].jar = IF build THEN r.jar ELSE jar,
                                      ![t].cachedJar = jar]
                /\ jar' = IF build THEN r.jar ELSE jar
                /\ reset(t)
                /\ pc' = [pc EXCEPT ![t] = IF unlockFails THEN "crashed" ELSE "do_build"]
                /\ result' = result
    /\ UNCHANGED << Options, Headers, transport, lock, config, m, viaBegin,
                    staged, own >>

\* lines 420-436: the jar; on an error reset and return, else reset (line 436)
DoJar(t) ==
    /\ Running(t) /\ pc[t] = "do_jar"
    /\ LET r == prepareJar(loc[t].options, newJar)
           build == jar = NilJar \/ ~reuseJar
       IN  IF build /\ r.err # ""
           THEN /\ reset(t)
                /\ IF unlockFails THEN halt(t) ELSE return(t, r.err)
                /\ jar' = jar
           ELSE /\ loc' = [loc EXCEPT ![t].jar = IF build THEN r.jar ELSE jar,
                                      ![t].cachedJar = jar]
                /\ jar' = IF build /\ reuseJar THEN r.jar ELSE jar
                /\ reset(t)
                /\ pc' = [pc EXCEPT ![t] = IF unlockFails THEN "crashed" ELSE "do_build"]
                /\ result' = result
    /\ UNCHANGED << Options, Headers, transport, lock, config, m, viaBegin,
                    staged, own >>

\* lines 438-456: the redirect policy and the request; neither reads the session
DoBuild(t) ==
    /\ Running(t) /\ pc[t] = "do_build"
    /\ LET r == prepareRedirect(loc[t].options)
       IN  IF r.err # ""
           THEN return(t, r.err)
           ELSE IF ~loc[t].urlOk
           THEN return(t, "http.NewRequest")
           ELSE /\ \E h \in prepareRequest(loc[t].headers, loc[t].options) :
                     loc' = [loc EXCEPT ![t].policy = r.policy, ![t].reqHeaders = h,
                                        ![t].via = 1]
                /\ pc' = [pc EXCEPT ![t] = "do_exec"]
                /\ result' = result
    /\ UNCHANGED << session, crashed, config, m, viaBegin, staged, own,
                    resets >>

\* line 458, inside c.Do(req): the server answers with a redirect and the
\* engine asks the CheckRedirect policy, via holding the requests sent so far.
\* A policy of the caller's (OPT_REDIRECT_POLICY) may answer either way.
Redirect(t, customAllows) ==
    /\ Running(t) /\ pc[t] = "do_exec"
    /\ loc[t].via < MaxChain
    /\ IF IF loc[t].policy.custom THEN customAllows
          ELSE redirectPolicy(loc[t].policy, loc[t].via)
       THEN /\ loc' = [loc EXCEPT ![t].via = @ + 1]
            /\ UNCHANGED << pc, result >>
       ELSE return(t, "redirect")
    /\ UNCHANGED << session, crashed, config, m, viaBegin, staged,
                    own, resets >>

\* line 458: c.Do(req); the engine answers or fails
DoExecute(t, engineErr) ==
    /\ Running(t) /\ pc[t] = "do_exec"
    /\ return(t, engineErr)
    /\ UNCHANGED << session, crashed, config, m, viaBegin, staged,
                    own, resets >>

\* the caller takes the result and is free to start its next cycle; what it
\* staged stays its own until a reset has consumed it
Return(t) ==
    /\ Running(t) /\ pc[t] = "returned"
    /\ pc' = [pc EXCEPT ![t] = "idle"]
    /\ loc' = loc
    /\ result' = [result EXCEPT ![t] = NoResult]
    /\ viaBegin' = [viaBegin EXCEPT ![t] = FALSE]
    /\ staged' = [staged EXCEPT ![t] = IF resets[t] = 0 THEN @ ELSE 0]
    /\ own' = [own EXCEPT ![t] = IF resets[t] = 0 THEN @ ELSE NoOwn]
    /\ resets' = [resets EXCEPT ![t] = 0]
    /\ UNCHANGED << session, crashed, config, m >>

(* ---------------------------------------------------------------------- *)
(* Specifications                                                          *)
(* ---------------------------------------------------------------------- *)
\* the cycle of a caller that follows the protocol: Begin, one-time
\* overrides, Do
Next ==
    \E t \in Callers :
        \/ Begin(t)
        \/ BeginCreate(t)
        \/ BeginLoad(t)
        \/ BeginLock(t)
        \/ \E kv \in StageChoices(t) : WithOption(t, kv[1], kv[2])
        \/ \E k \in HeaderKeys : WithHeader(t, k, t)
        \/ WithCookie(t, t)
        \/ \E a \in DoArgs : Do(t, a[1], a[2])
        \/ DoResolve(t)
        \/ DoTransport(t)
        \/ DoJar(t)
        \/ DoBuild(t)
        \/ \E e \in {"", "engine"} : DoExecute(t, e)
        \/ Return(t)

\* every call of the public surface
NextSeq ==
    \E t \in Callers :
        \/ Begin(t)
        \/ BeginCreate(t)
        \/ BeginLoad(t)
        \/ BeginLock(t)
        \/ \E kv \in StageChoices(t) : WithOption(t, kv[1], kv[2])
        \/ \E mp \in StageMaps(t) : WithOptions(t, mp)
        \/ \E k \in HeaderKeys : WithHeader(t, k, "o")
        \/ \E mp \in HeaderMaps(t) : WithHeaders(t, mp)
        \/ WithCookie(t, t)
        \/ \E kv \in PersistentHeaders : SetHeader(t, kv[1], kv[2])
        \/ \E a \in DoArgs : Do(t, a[1], a[2])
        \/ Get(t, TRUE)
        \/ \E p \in ParamChoices, f \in addFormFileOutcomes : Post(t, p, f, TRUE)
        \/ \E p \in ParamChoices, f \in addFormFileOutcomes : PostMultipart(t, p, f, TRUE)
        \/ DoResolve(t)
        \/ DoTransport(t)
        \/ DoJar(t)
        \/ DoBuild(t)
        \/ \E e \in {"", "engine"} : DoExecute(t, e)
        \/ Return(t)

\* direct Do calls of one caller, with the redirects the engine meets
NextOptions ==
    \E t \in Callers :
        \/ Do(t, EmptyMap, TRUE)
        \/ DoResolve(t)
        \/ DoTransport(t)
        \/ DoJar(t)
        \/ DoBuild(t)
        \/ \E a \in BOOLEAN : Redirect(t, a)
        \/ DoExecute(t, "")
        \/ Return(t)

\* c1 stages under Begin while c2 calls Get and Do directly
NextMixed ==
    \/ Begin("c1")
    \/ BeginCreate("c1")
    \/ BeginLoad("c1")
    \/ BeginLock("c1")
    \/ pc["c1"] = "staged" /\ \E kv \in StageChoices("c1") : WithOption("c1", kv[1], kv[2])
    \/ pc["c1"] = "staged" /\ \E k \in HeaderKeys : WithHeader("c1", k, "c1")
    \/ pc["c1"] = "staged" /\ WithCookie("c1", "c1")
    \/ pc["c1"] = "staged" /\ Do("c1", EmptyMap, TRUE)
    \/ Get("c2", TRUE)
    \/ Do("c2", EmptyMap, TRUE)
    \/ \E t \in Callers :
          \/ DoResolve(t)
          \/ DoTransport(t)
          \/ DoJar(t)
          \/ DoBuild(t)
          \/ \E e \in {"", "engine"} : DoExecute(t, e)
          \/ Return(t)

\* two callers, each running Begin -> With* -> Do cycles
Spec == Init /\ [][Next]_vars

\* one caller, calls in any order
SpecSeq == InitSeq /\ [][NextSeq]_vars

\* a caller that follows the protocol and one that does not call Begin
SpecMixed == InitMixed /\ [][NextMixed]_vars

\* one caller, sessions constructed with each of OptionChoices
SpecOptions == InitOptions /\ [][NextOptions]_vars

\* The scheduling of the two callers of Spec.  A goroutine that can run is run
\* in the end; sync.Mutex hands the lock to a waiter that has waited long
\* (starvation mode), so a Lock that can succeed again and again succeeds; a
\* caller that has returned from Begin makes its Do call, the engine answers,
\* and the caller takes the result.  Nothing makes a caller start a new cycle.
Fairness ==
    \A t \in Callers :
        /\ WF_vars(BeginCreate(t) \/ BeginLoad(t))
        /\ SF_vars(BeginLock(t))
        /\ WF_vars(\E a \in DoArgs : Do(t, a[1], a[2]))
        /\ WF_vars(DoResolve(t) \/ DoTransport(t) \/ DoJar(t) \/ DoBuild(t))
        /\ WF_vars(\E e \in {"", "engine"} : DoExecute(t, e))
        /\ WF_vars(Return(t))

\* Spec under that scheduling
SpecFair == Init /\ [][Next]_vars /\ Fairness

(* ---------------------------------------------------------------------- *)
(* Claims                                                                  *)
(* ---------------------------------------------------------------------- *)
\* t is between the return of its Begin and the reset inside its Do
InWindow(t) == viaBegin[t] /\ pc[t] \in {"staged", "do_resolve", "do_transport", "do_jar"}

\* the session's lock exists and is free
LockFree == lock # 0 /\ ~mutexes[lock].locked

\* nothing is staged and both reuse flags are true
OneTimeCleared ==
    /\ oneTimeOptions = EmptyMap
    /\ oneTimeHeaders = EmptyMap
    /\ oneTimeCookies = << >>
    /\ reuseTransport
    /\ reuseJar

\* the settings of a transport, its identity left out
TransportConfig(tr) ==
    [connectTimeoutMS |-> tr.connectTimeoutMS, timeoutMS |-> tr.timeoutMS, proxy |-> tr.proxy]

\* C1: with callers that all run Begin -> With* -> Do cycles, at most one
\* caller at a time is between the return of its Begin and the reset of its
\* Do, and the one-time options, headers and cookies a Do resolves are
\* exactly those its own caller staged.
C1_ExclusiveStaging ==
    /\ Cardinality({t \in Callers : InWindow(t)}) <= 1
    /\ \A t \in Callers : pc[t] \in {"do_transport", "do_jar"} => loc[t].seen = own[t]

\* C2: when Do returns, on any of its paths, reset has run exactly once: the
\* one-time state is empty, both reuse flags are true, and the lock of a
\* caller that entered through Begin is free.
C2_DoReturnsAfterReset ==
    \A t \in Callers :
        (pc[t] = "returned" /\ result[t].from = "Do") =>
            /\ resets[t] = 1
            /\ OneTimeCleared
            /\ (viaBegin[t] => LockFree)

\* a Do entered through Begin has returned the error of prepareTransport
C2_Witness ==
    \E t \in Callers :
        /\ pc[t] = "returned" /\ result[t].from = "Do" /\ viaBegin[t]
        /\ result[t].err = "OPT_TIMEOUT_MS must be int"

\* C3: whenever a request call started after Begin returns an error, the
\* lock is released and the one-time state is cleared.
C3_ErrorReleasesLock ==
    \A t \in Callers :
        (pc[t] = "returned" /\ result[t].err # "" /\ viaBegin[t]) =>
            LockFree /\ OneTimeCleared

\* C4: the options, the transport and the jar a Do without staged overrides
\* uses are those of the defaults and the persistent Options alone.
C4_UnstagedDoUsesBaseOptions ==
    \A t \in Callers :
        (pc[t] \in {"do_build", "do_exec"} /\ own[t] = NoOwn) =>
            LET base == Overlay(defaultOptions, Options)
                tr   == prepareTransport(base, 0)
                jr   == prepareJar(base, 0)
            IN  /\ loc[t].options = base
                /\ tr.err = ""
                /\ TransportConfig(loc[t].transport) = TransportConfig(tr.transport)
                /\ jr.err = ""
                /\ loc[t].jar.kind = jr.jar.kind

\* C5: with a transport cached, a staged one-time option of the
\* transport-affecting set makes the next Do build a new transport.
C5_TransportOptionForcesRebuild ==
    \A t \in Callers :
        ( /\ pc[t] \in {"do_jar", "do_build", "do_exec"}
          /\ loc[t].cachedTransport # NilTransport
          /\ \E k \in DOMAIN own[t].options : hasOptionMember(k, transportOptions) ) =>
            loc[t].transport # loc[t].cachedTransport

\* C6: with a transport cached, staged one-time options that are all outside
\* the transport-affecting set force no rebuild: the Do uses the cached
\* transport itself and the cache holds it afterwards.
C6_OtherOptionKeepsTransport ==
    \A t \in Callers :
        ( /\ pc[t] \in {"do_jar", "do_build", "do_exec"}
          /\ loc[t].cachedTransport # NilTransport
          /\ DOMAIN own[t].options # {}
          /\ \A k \in DOMAIN own[t].options : ~hasOptionMember(k, transportOptions) ) =>
            /\ loc[t].transport = loc[t].cachedTransport
            /\ transport = loc[t].cachedTransport

\* a Do with OPT_REFERER staged has taken the transport an earlier Do cached
C6_Witness ==
    \E t \in Callers :
        /\ pc[t] = "do_exec"
        /\ loc[t].cachedTransport # NilTransport
        /\ DOMAIN own[t].options = {OPT_REFERER}
        /\ loc[t].transport = transport

\* C7: a staged OPT_COOKIEJAR, and no other key, turns the jar reuse flag
\* off, for that call only: its Do builds the jar of the resolved options,
\* uses it and leaves the cached jar as it was, and reset turns the flag on
\* again; without a staged OPT_COOKIEJAR a cached jar is the one used.
C7_OneTimeJar ==
    \A t \in Callers :
        /\ pc[t] \in {"staged", "do_resolve", "do_transport", "do_jar"} =>
              (reuseJar <=> OPT_COOKIEJAR \notin DOMAIN own[t].options)
        /\ pc[t] \in {"do_build", "do_exec"} =>
              /\ reuseJar
              /\ jar # NilJar => jar = IF loc[t].cachedJar # NilJar THEN loc[t].cachedJar
                                       ELSE loc[t].jar
              /\ IF OPT_COOKIEJAR \in DOMAIN own[t].options
                 THEN /\ loc[t].jar = prepareJar(loc[t].options, loc[t].jar.id).jar
                      /\ jar = loc[t].cachedJar
                      /\ loc[t].jar.kind = "new" => loc[t].jar # jar
                 ELSE loc[t].cachedJar # NilJar => loc[t].jar = loc[t].cachedJar

\* a Do with a one-time OPT_COOKIEJAR runs with a jar of its own while the
\* session keeps the jar an earlier call cached
C7_Witness ==
    \E t \in Callers :
        /\ pc[t] = "do_exec"
        /\ OPT_COOKIEJAR \in DOMAIN own[t].options
        /\ loc[t].cachedJar.kind = "new"
        /\ jar = loc[t].cachedJar
        /\ loc[t].jar # jar
        /\ reuseJar

\* the value of key k after resolution of the three layers
Resolved(k, D, P, O) ==
    IF k \in DOMAIN O THEN O[k] ELSE IF k \in DOMAIN P THEN P[k] ELSE D[k]

\* C8: the resolve step of Do never fails, leaves the three layers as they
\* were, and yields for every key of a layer the one-time value if staged,
\* else the persistent value if present, else the default, and no other key.
C8_ResolutionPrecedence ==
    [][ \A t \in Callers :
          pc[t] = "do_resolve" /\ pc'[t] # "do_resolve" =>
            /\ pc'[t] = "do_transport"
            /\ Options' = Options
            /\ oneTimeOptions' = oneTimeOptions
            /\ DOMAIN loc'[t].options =
                  (DOMAIN defaultOptions) \cup (DOMAIN Options) \cup (DOMAIN oneTimeOptions)
            /\ \A k \in DOMAIN loc'[t].options :
                  loc'[t].options[k] = Resolved(k, defaultOptions, Options, oneTimeOptions)
      ]_vars

\* a key of all three layers resolved to its one-time value
C8_Witness ==
    \E t \in Callers :
        /\ pc[t] = "do_transport"
        /\ OPT_MAXREDIRS \in (DOMAIN Options) \cap (DOMAIN oneTimeOptions)
        /\ Options[OPT_MAXREDIRS] # oneTimeOptions[OPT_MAXREDIRS]
        /\ loc[t].options[OPT_MAXREDIRS] = oneTimeOptions[OPT_MAXREDIRS]

\* the field the request holds for header name k is v
Carries(h, k, v) ==
    CanonicalMIMEHeaderKey(k) \in DOMAIN h /\ h[CanonicalMIMEHeaderKey(k)] = v

\* C9: the request of a call carries the persistent Headers merged with the
\* staged one-time headers, the one-time value where both name a field
\* (stated for the calls that pass no headers of the caller's: Get and Post).
C9_OneTimeHeaderWins ==
    \A t \in Callers :
        (pc[t] = "do_exec" /\ loc[t].op \in {"Get", "Post"}) =>
            LET h  == loc[t].reqHeaders
                ot == loc[t].seen.headers
                otFields == {CanonicalMIMEHeaderKey(k) : k \in DOMAIN ot}
            IN  /\ \A k \in DOMAIN ot : Carries(h, k, ot[k])
                /\ \A k \in DOMAIN Headers :
                      CanonicalMIMEHeaderKey(k) \notin otFields => Carries(h, k, Headers[k])

\* C10: the engine is invoked only after the reset of the Do has released
\* the session's lock: a caller whose request is executing does not hold it.
C10_LockNotHeldDuringExecution ==
    \A t \in Callers :
        pc[t] = "do_exec" =>
            /\ resets[t] = 1
            /\ ~(lock # 0 /\ mutexes[lock].locked /\ mutexes[lock].holder = t)

\* while the request of c1 executes, c2 has acquired the lock and staged
C10_Witness ==
    /\ pc["c1"] = "do_exec"
    /\ pc["c2"] = "staged"
    /\ viaBegin["c2"]
    /\ own["c2"] # NoOwn
    /\ lock # 0 /\ mutexes[lock].locked /\ mutexes[lock].holder = "c2"

\* t holds the session's lock
HoldsLock(t) == lock # 0 /\ mutexes[lock].locked /\ mutexes[lock].holder = t

\* C11: every write of a With* call to the one-time state is made while the
\* session's lock is held by the caller that makes the call; never while the
\* lock is absent, free, or held by another caller.
C11_StagingUnderLock ==
    [][ \A t \in Callers : staged'[t] = staged[t] + 1 => HoldsLock(t) ]_vars

\* t has called Begin and Begin has not returned
PendingBegin(t) == pc[t] \in {"begin_create", "begin_load", "begin_lock"}

\* C12: under fair scheduling, with callers that each make exactly one Do
\* call after every Begin, every Begin that has been called returns.
C12_BeginReturns ==
    \A t \in Callers : PendingBegin(t) ~> (pc[t] = "staged")

\* the same while the process lives: a pending Begin returns unless the
\* runtime's fatal error has ended the process
BeginReturnsUnlessCrashed ==
    \A t \in Callers : PendingBegin(t) ~> (pc[t] = "staged" \/ crashed)
\* the value the session gives option k: the persistent one, else the default
BaseOption(k) == IF k \in DOMAIN Options THEN Options[k] ELSE defaultOptions[k]

\* C13: with no OPT_REDIRECT_POLICY set, the policy Do installs answers a
\* chain of n prior requests, for every n: refused if follow-redirects is
\* false or max-redirects <= 0, refused if n >= max-redirects, allowed
\* otherwise; follow-redirects and max-redirects are the session's options,
\* or the defaults (true, 10) where the session has none.
C13_RedirectPolicy ==
    \A t \in Callers :
        (pc[t] = "do_exec" /\ OPT_REDIRECT_POLICY \notin DOMAIN loc[t].options) =>
            LET follow == BaseOption(OPT_FOLLOWLOCATION).val
                max    == BaseOption(OPT_MAXREDIRS).val
            IN  /\ ~loc[t].policy.custom
                /\ \A n \in 0..MaxChain :
                      redirectPolicy(loc[t].policy, n) <=>
                          ~(~follow \/ max <= 0) /\ ~(n >= max)
                /\ OPT_MAXREDIRS \notin DOMAIN Options => max = 10
                /\ OPT_FOLLOWLOCATION \notin DOMAIN Options => follow = TRUE

\* with follow-redirects true and max-redirects 3 the chain has grown to
\* three requests (the redirect after two was allowed) and the next
\* redirect is refused
C13_Witness ==
    \E t \in Callers :
        /\ pc[t] = "do_exec"
        /\ ~loc[t].policy.custom
        /\ loc[t].policy.followlocation /\ loc[t].policy.maxredirs = 3
        /\ loc[t].via = 3
        /\ ~redirectPolicy(loc[t].policy, 3)

\* with no max-redirects option set, a chain under the default of 10 grows to
\* ten requests
C13_WitnessDefault ==
    \E t \in Callers :
        /\ pc[t] = "do_exec"
        /\ OPT_MAXREDIRS \notin DOMAIN Options
        /\ loc[t].via = 10
\* the timeout in milliseconds the session's options ask for: the
\* millisecond option, else the second option times 1000, else 0
Requested(msKey, sKey) ==
    IF msKey \in DOMAIN Options THEN Options[msKey].val
    ELSE IF sKey \in DOMAIN Options THEN Options[sKey].val * 1000
    ELSE 0

\* C14: the transport of a Do has its connect timeout set to the overall
\* timeout whenever the overall timeout is positive and the connect timeout
\* is 0 or larger than it, and whenever the overall timeout is positive the
\* connection is dialed with a positive timeout no greater than it.
C14_ConnectTimeoutClamped ==
    \A t \in Callers :
        pc[t] \in {"do_jar", "do_build", "do_exec"} =>
            LET c == Requested(OPT_CONNECTTIMEOUT_MS, OPT_CONNECTTIMEOUT)
                o == Requested(OPT_TIMEOUT_MS, OPT_TIMEOUT)
                d == dial(loc[t].transport)
            IN  /\ (o > 0 /\ (c = 0 \/ c > o)) => loc[t].transport.connectTimeoutMS = o
                /\ o > 0 => (d.timed /\ d.ms > 0 /\ d.ms <= o)
\* both precisions of a timeout are among the options
BothPresent(options, msKey, sKey) == msKey \in DOMAIN options /\ sKey \in DOMAIN options

\* C15: a Do gets past prepareTransport with both precisions of a timeout
\* among its options only if both hold an int, and its transport then has
\* the millisecond value; with a non-int in either, Do returns the error and
\* no request is executed.
C15_MillisecondPreferred ==
    \A t \in Callers :
        pc[t] \in {"do_jar", "do_build", "do_exec"} =>
            LET o  == loc[t].options
                tr == loc[t].transport
            IN  /\ BothPresent(o, OPT_TIMEOUT_MS, OPT_TIMEOUT) =>
                      /\ o[OPT_TIMEOUT_MS].type = "int"
                      /\ o[OPT_TIMEOUT].type = "int"
                      /\ tr.timeoutMS = o[OPT_TIMEOUT_MS].val
                /\ BothPresent(o, OPT_CONNECTTIMEOUT_MS, OPT_CONNECTTIMEOUT) =>
                      /\ o[OPT_CONNECTTIMEOUT_MS].type = "int"
                      /\ o[OPT_CONNECTTIMEOUT].type = "int"
                      /\ tr.connectTimeoutMS =
                            fixConnectTimeout(o[OPT_CONNECTTIMEOUT_MS].val, tr.timeoutMS)
\* C16: with one caller, whatever the order of its Begin, With* and request
\* calls, no reset unlocks a mutex that is not locked: the runtime never ends
\* the process and every Do completes.
C16_NoFatalUnlock ==
    /\ ~crashed
    /\ \A t \in Callers : pc[t] # "crashed"
\* C17: a mutex a caller locked through Begin is unlocked only by the reset
\* of that caller's own Do; while a caller is in its staging window the
\* one-time state changes only by its own With* calls; and the resolve step
\* of a Do reads only what its own caller staged.
C17_OnlyHolderReleases ==
    [][ \A t \in Callers :
          /\ \A i \in DOMAIN mutexes :
                (mutexes[i].locked /\ mutexes[i].holder = t /\ ~mutexes'[i].locked) =>
                    resets'[t] = resets[t] + 1
          /\ (pc[t] = "staged" /\ pc'[t] = "staged" /\ staged'[t] = staged[t]) =>
                UNCHANGED oneTime
          /\ (pc[t] = "do_resolve" /\ pc'[t] = "do_transport") =>
                loc'[t].seen = own[t]
      ]_vars
\* the step returns from the Do of t an error of prepareTransport,
\* prepareJar or prepareRedirect
ConfigFailure(t) ==
    /\ pc[t] # "returned" /\ pc'[t] = "returned"
    /\ result'[t].from = "Do"
    /\ result'[t].err \notin {"", "engine", "redirect", "http.NewRequest"}

\* the cached transport and jar as the call of t found them
BeforeTransport(t) == IF pc[t] = "do_transport" THEN transport ELSE loc[t].cachedTransport
BeforeJar(t) == IF pc[t] \in {"do_transport", "do_jar"} THEN jar ELSE loc[t].cachedJar

\* C18: a Do that returns a configuration error has executed no request and
\* leaves the cached transport and the cached jar as they were before the
\* call.
C18_FailedDoKeepsCaches ==
    [][ \A t \in Callers :
          ConfigFailure(t) =>
              /\ pc[t] \in {"do_transport", "do_jar", "do_build"}
              /\ transport' = BeforeTransport(t)
              /\ jar' = BeforeJar(t)
      ]_vars

\* C18 as amended: a Do that returns a configuration error has executed no
\* request and has neither replaced nor emptied a cached transport or jar; a
\* cache that was empty before the call is empty or holds what the call built
\* before the step that failed, and a failure of prepareTransport leaves both
\* caches as they were.
C18_FailedDoFillsEmptyCacheOnly ==
    [][ \A t \in Callers :
          ConfigFailure(t) =>
              /\ pc[t] \in {"do_transport", "do_jar", "do_build"}
              /\ BeforeTransport(t) # NilTransport => transport' = BeforeTransport(t)
              /\ BeforeJar(t) # NilJar => jar' = BeforeJar(t)
              /\ transport' \in {BeforeTransport(t), loc[t].transport}
              /\ jar' \in {BeforeJar(t), loc[t].jar}
              /\ pc[t] = "do_transport" => transport' = transport /\ jar' = jar
              /\ pc[t] = "do_jar" => jar' = jar
      ]_vars

\* a Do that found no cached transport has built and stored one, and its
\* prepareRedirect is about to fail
C18_Witness ==
    \E t \in Callers :
        /\ pc[t] = "do_build"
        /\ prepareRedirect(loc[t].options).err # ""
        /\ loc[t].cachedTransport = NilTransport
        /\ transport # NilTransport
        /\ transport = loc[t].transport
\* C19: no step of a request call (Do, Get, Post, PostMultipart) changes the
\* persistent Options or the persistent Headers: both hold what the caller
\* put there, and the Content-Type of a Post is not among the Headers.
C19_PersistentStateUntouched ==
    [][ (\E t \in Callers : pc'[t] # pc[t]) =>
            /\ Options' = Options
            /\ Headers' = Headers
      ]_vars
====
